---- MODULE Spec2Model ----
(***************************************************************************)
(* The modal video player: the page (Home) owns the open/closed flag of    *)
(* the dialog, the dialog mounts the player wrapper while it is open, and  *)
(* the wrapper (VideoPlayer) constructs one video.js widget in its mount   *)
(* effect, sets its source when it reports ready and disposes it in the    *)
(* effect's cleanup.                                                       *)
(*                                                                         *)
(* One step of the model is one browser task: an event handler or timer    *)
(* callback together with the synchronous React work it causes (re-render, *)
(* commit, effect cleanups and effects), since JavaScript runs each task   *)
(* to completion before the next event is delivered.  The order of the     *)
(* calls made inside a task is kept in the call log `calls`.               *)
(*                                                                         *)
(* Playback rates are written in tenths: 5, 10, 15, 20 stand for 0.5, 1,   *)
(* 1.5, 2.                                                                 *)
(***************************************************************************)
EXTENDS Integers, Sequences, FiniteSets

VARIABLES
    isOpen,           \* Home: const [isOpen, setIsOpen] = useState(false)
    mounted,          \* the wrapper is in the tree (DialogContent's children)
    videoUrl,         \* wrapper prop videoUrl of the mounted instance
    playerRef,        \* wrapper: playerRef.current (Null or a widget)
    isReady,          \* wrapper: const [isReady, setIsReady] = useState(false)
    selectedQuality,  \* wrapper: the displayed quality label
    onCloseProp,      \* what the host passes as the wrapper's onClose prop
    instance,         \* how many wrapper instances have been mounted so far
    widgets,          \* every widget constructed so far, by identity 1..Len
    calls,            \* the calls issued so far, in program order
    lastEvent         \* the event the last task handled (history)

vars == <<isOpen, mounted, videoUrl, playerRef, isReady, selectedQuality,
          onCloseProp, instance, widgets, calls, lastEvent>>

----------------------------------------------------------------------------
(* Bounds of the exploration *)

MaxSessions == 2

MaxRateCalls == 2

\* The same two bounds for the exploration with every kind of host and with
\* playback errors (SpecHosts).
MaxHostSessions == 1

MaxHostRateCalls == 1

\* How many times a host's onClose callback is called in SpecHosts.
MaxHostCloseCalls == 1

\* The exploration of the wrapper under a host that changes its props and
\* under failing mounts (SpecWrapper, SpecReruns): how many wrapper
\* instances are mounted, how many src calls are issued and how many times
\* the effects of a mounted instance are run again.
MaxWrapperMounts == 2

MaxWrapperSrcCalls == 2

MaxEffectReruns == 1

----------------------------------------------------------------------------
(* Program constants *)

VIDEO_URL == "https://vz-7335a46e-2e0.b-cdn.net/594c2931-3911-4bc3-a7ee-a085f5050931/playlist.m3u8"

HlsType == "application/x-mpegURL"

playbackRates == <<5, 10, 15, 20>>

resolutions == <<"auto", "1080", "720", "480", "360">>

\* The stream URLs of the playlist example.
PlaylistUrls == <<"https://example.com/video1.m3u8", "https://example.com/video2.m3u8">>

Null == 0

NoUrl == ""

NoType == ""

NoRate == Null

NoLabel == ""

Range(f) == {f[i] : i \in DOMAIN f}

----------------------------------------------------------------------------
(* The widget (video.js player), as far as the wrapper uses it *)

\* A freshly constructed widget.  The options passed to videojs(...) carry no
\* source: url and type start empty.  readyCb counts the callbacks queued by
\* player.ready(...) that have not run yet; `early` (history) holds the URLs
\* the source effect was run with while it could not set them; `error` says
\* that the widget has emitted an error event.
NewWidget ==
    [status |-> "live", ready |-> FALSE, readyCb |-> 0, menuItems |-> {},
     owner |-> Null, rate |-> 10, url |-> NoUrl, type |-> NoType,
     early |-> {}, error |-> FALSE]

Call(op, w, rate, url, type) ==
    [op |-> op, w |-> w, rate |-> rate, url |-> url, type |-> type]

\* The state the handlers transform.
Cur ==
    [isOpen |-> isOpen, mounted |-> mounted, videoUrl |-> videoUrl,
     playerRef |-> playerRef, isReady |-> isReady,
     selectedQuality |-> selectedQuality, onCloseProp |-> onCloseProp,
     instance |-> instance, widgets |-> widgets, calls |-> calls]

Becomes(s) ==
    /\ isOpen' = s.isOpen
    /\ mounted' = s.mounted
    /\ videoUrl' = s.videoUrl
    /\ playerRef' = s.playerRef
    /\ isReady' = s.isReady
    /\ selectedQuality' = s.selectedQuality
    /\ onCloseProp' = s.onCloseProp
    /\ instance' = s.instance
    /\ widgets' = s.widgets
    /\ calls' = s.calls

Event(kind, w, rate, label) ==
    [kind |-> kind, w |-> w, rate |-> rate, label |-> label]

\* videojs(videoRef.current, {controls, autoplay, preload, responsive, fluid,
\* html5}): a new widget; its identity is Len(s.widgets) + 1.
videojs(s) ==
    [s EXCEPT !.widgets = Append(@, NewWidget),
              !.calls = Append(@, Call("videojs", Len(s.widgets) + 1, NoRate, NoUrl, NoType))]

\* player.dispose(): the widget is destroyed; its pending ready callback
\* (a timer of the widget) is cancelled with it.
dispose(s, w) ==
    [s EXCEPT !.widgets[w].status = "disposed",
              !.widgets[w].readyCb = 0,
              !.calls = Append(@, Call("dispose", w, NoRate, NoUrl, NoType))]

\* player.src({src, type})
src(s, w, url, type) ==
    [s EXCEPT !.widgets[w].url = url,
              !.widgets[w].type = type,
              !.calls = Append(@, Call("src", w, NoRate, url, type))]

\* player.playbackRate(rate)
playbackRate(s, w, rate) ==
    [s EXCEPT !.widgets[w].rate = IF s.widgets[w].status = "live" THEN rate ELSE @,
              !.calls = Append(@, Call("playbackRate", w, rate, NoUrl, NoType))]

----------------------------------------------------------------------------
(* The player wrapper: VideoPlayer *)

\* Mutant: the effect creates the rate items only for a ready wrapper.
AddRateMenuWhenReady(s, w) ==
    IF s.isReady THEN [s EXCEPT !.widgets[w].menuItems = Range(playbackRates)] ELSE s

\* Lines 57-66: one menu item per rate, each with a click listener that
\* closes over this effect run's `player`.  The items belong to the widget's
\* control bar: they can be activated while the widget is in the document,
\* that is until it is disposed.
AddRateMenu(s, w) ==
    [s EXCEPT !.widgets[w].menuItems = Range(playbackRates)]

\* Mutant: the listener uses the first player ever created instead of the
\* one of its own effect run.
ClickHandlerFirstPlayer(s, w, rate) == playbackRate(s, 1, rate)

\* Mutant: the listener is attached twice.
ClickHandlerDouble(s, w, rate) == playbackRate(playbackRate(s, w, rate), w, rate)

\* Mutant: choosing a rate also puts the wrapper back to not ready.
ClickHandlerResetsReady(s, w, rate) ==
    [playbackRate(s, w, rate) EXCEPT !.isReady = FALSE]

\* Mutant: the listener calls the widget constructed before the one its
\* effect run constructed.
ClickHandlerPreviousPlayer(s, w, rate) ==
    playbackRate(s, IF w > 1 THEN w - 1 ELSE w, rate)

\* Lines 63-65: the click listener of the item for `rate` of widget w.
ClickHandler(s, w, rate) == playbackRate(s, w, rate)

\* Mutant: the effect registers the ready callback twice.
RegisterReadyTwice(s, w) ==
    [s EXCEPT !.widgets[w].readyCb = @ + 2, !.widgets[w].owner = s.instance]

\* Lines 78-80: player.ready(() => setIsReady(true)) queues the callback in
\* the widget; `owner` is the wrapper instance whose setIsReady it holds.
RegisterReady(s, w) ==
    [s EXCEPT !.widgets[w].readyCb = @ + 1, !.widgets[w].owner = s.instance]

\* Line 79: setIsReady(true), of wrapper instance `inst`.  A state update of
\* an instance that is no longer mounted changes nothing.
ReadyCallback(s, inst) ==
    IF s.mounted /\ s.instance = inst THEN [s EXCEPT !.isReady = TRUE] ELSE s

\* The widget w runs the n callbacks of its ready queue, in one task: each
\* run is logged and does what line 79 does.
RunReadyQueue(s, w, n) ==
    LET runs == [i \in 1..n |-> Call("readyCallback", w, NoRate, NoUrl, NoType)]
        logged == [s EXCEPT !.calls = @ \o runs]
    IN  IF n > 0 THEN ReadyCallback(logged, s.widgets[w].owner) ELSE s

\* Mutant: the effect constructs a widget, then constructs again over it.
MountEffectTwice(s, container) ==
    IF ~container
    THEN s
    ELSE LET w == Len(s.widgets) + 2
             constructed == [videojs(videojs(s)) EXCEPT !.playerRef = w]
         IN  RegisterReady(AddRateMenu(constructed, w), w)

\* Mutant: the effect sets the default rate on the widget it is about to
\* construct, before constructing it.
MountEffectRateFirst(s, container) ==
    IF ~container
    THEN s
    ELSE LET w == Len(s.widgets) + 1
             early == [s EXCEPT !.calls = Append(@, Call("playbackRate", w, 10, NoUrl, NoType))]
             constructed == [videojs(early) EXCEPT !.playerRef = w]
         IN  RegisterReady(AddRateMenu(constructed, w), w)

\* Lines 29-81: the body of the mount effect.  `container` is
\* videoRef.current # null.  The quality button of lines 70-75 gets no
\* listener and no state: it adds nothing a later step can observe.
MountEffect(s, container) ==
    IF ~container
    THEN s
    ELSE LET w == Len(s.widgets) + 1
             constructed == [videojs(s) EXCEPT !.playerRef = w]
         IN  RegisterReady(AddRateMenu(constructed, w), w)

\* Mutant: the cleanup drops the reference without disposing.
CleanupNoDispose(s) ==
    IF s.playerRef # Null THEN [s EXCEPT !.playerRef = Null] ELSE s

\* Mutant: the cleanup disposes only a player that became ready.
CleanupIfReady(s) ==
    IF s.playerRef # Null /\ s.isReady
    THEN [dispose(s, s.playerRef) EXCEPT !.playerRef = Null]
    ELSE s

\* Mutant: the cleanup calls dispose() twice on the widget it holds.
CleanupDisposesTwice(s) ==
    IF s.playerRef # Null
    THEN [dispose(dispose(s, s.playerRef), s.playerRef) EXCEPT !.playerRef = Null]
    ELSE s

\* Mutant: the cleanup disposes the widget and keeps the reference.
CleanupKeepsRef(s) ==
    IF s.playerRef # Null THEN dispose(s, s.playerRef) ELSE s

\* Lines 83-88: the cleanup of the mount effect.
Cleanup(s) ==
    IF s.playerRef # Null
    THEN [dispose(s, s.playerRef) EXCEPT !.playerRef = Null]
    ELSE s

\* Mutant: the source is given the MP4 type.
SourceEffectMp4(s) ==
    IF s.playerRef # Null /\ s.isReady
    THEN src(s, s.playerRef, s.videoUrl, "video/mp4")
    ELSE s

\* Mutant: the source effect sets the source without looking at isReady.
SourceEffectUnguarded(s) ==
    IF s.playerRef # Null
    THEN src(s, s.playerRef, s.videoUrl, HlsType)
    ELSE s

\* Mutant: the source effect puts the rate back to 1x after setting the
\* source.
SourceEffectResetsRate(s) ==
    IF s.playerRef # Null /\ s.isReady
    THEN playbackRate(src(s, s.playerRef, s.videoUrl, HlsType), s.playerRef, 10)
    ELSE IF s.playerRef # Null
    THEN [s EXCEPT !.widgets[s.playerRef].early = @ \cup {s.videoUrl}]
    ELSE s

\* Lines 92-99: the source effect, deps [videoUrl, isReady].
SourceEffect(s) ==
    IF s.playerRef # Null /\ s.isReady
    THEN src(s, s.playerRef, s.videoUrl, HlsType)
    ELSE IF s.playerRef # Null
    THEN [s EXCEPT !.widgets[s.playerRef].early = @ \cup {s.videoUrl}]
    ELSE s

\* Mutant: the wrapper answers an error event by setting the source again.
WrapperOnErrorRetry(s, w) ==
    IF s.playerRef = w THEN src(s, w, s.videoUrl, HlsType) ELSE s

\* Lines 29-99: what the wrapper does when widget w emits an error event.
\* It registers a ready callback (line 78) and click listeners (line 63) and
\* no listener for 'error': nothing.
WrapperOnError(s, w) == s

\* Mutant: the wrapper's hooks keep the values of the previous instance.
MountKeepsState(s, url) ==
    LET kept == [s EXCEPT !.mounted = TRUE, !.instance = @ + 1,
                          !.videoUrl = url, !.playerRef = Null]
    IN  SourceEffect(MountEffect(kept, TRUE))

\* Lines 24-27 and 101-115: a new wrapper instance enters the tree with prop
\* videoUrl = url; its hooks start from their initial values, the <video>
\* element is rendered unconditionally (so videoRef.current is set when the
\* effects run), then both effects run in source order.
Mount(s, url) ==
    LET fresh == [s EXCEPT !.mounted = TRUE, !.instance = @ + 1,
                           !.videoUrl = url, !.playerRef = Null,
                           !.isReady = FALSE, !.selectedQuality = "auto"]
    IN  SourceEffect(MountEffect(fresh, TRUE))

\* Mutant: the mount effect returns no cleanup.
UnmountNoCleanup(s) == [s EXCEPT !.mounted = FALSE]

\* Mutant: the cleanup runs before the elements are removed, as the cleanup
\* of a layout effect would.
UnmountCleanupFirst(s) ==
    LET cleaned == Cleanup(s)
    IN  [cleaned EXCEPT !.mounted = FALSE,
                        !.calls = Append(@, Call("removeChild", s.playerRef, NoRate, NoUrl, NoType))]

\* Lines 29 and 82-89: the wrapper leaves the tree.  The cleanup belongs to
\* a useEffect, a passive effect: React first removes the wrapper's elements
\* (the container with them) from the document, logged as removeChild, and
\* runs the cleanup after that, in the same task.
Unmount(s) ==
    LET removed == [s EXCEPT !.calls = Append(@, Call("removeChild", s.playerRef, NoRate, NoUrl, NoType))]
    IN  [Cleanup(removed) EXCEPT !.mounted = FALSE]

\* Mutant: the mount effect has deps [videoUrl]: a new URL cleans it up and
\* runs it again.
WrapperUpdateRemounts(old, s) ==
    IF s.mounted /\ s.videoUrl # old.videoUrl
    THEN SourceEffect(MountEffect(Cleanup(s), TRUE))
    ELSE IF s.mounted /\ s.isReady # old.isReady
    THEN SourceEffect(s)
    ELSE s

\* Mutant: the source effect has no deps and runs after every render.
WrapperUpdateEveryRender(old, s) ==
    IF s.mounted THEN SourceEffect(s) ELSE s

\* A re-render of the mounted wrapper: an effect runs again when one of its
\* deps changed (line 99); the mount effect has deps [] (line 89).
WrapperUpdate(old, s) ==
    IF s.mounted /\ (s.isReady # old.isReady \/ s.videoUrl # old.videoUrl)
    THEN SourceEffect(s)
    ELSE s

----------------------------------------------------------------------------
(* The modal host: Home *)

\* Mutant: the modal starts open.
HomeInitialOpenTrue == TRUE

\* Line 11: useState(false)
HomeInitialOpen == FALSE

\* The Dialog component: it renders its content exactly while `open` is true.
DialogShowsContent(open) == open

\* Lines 60-72: the wrapper, with videoUrl={VIDEO_URL}, is the content of
\* <Dialog open={isOpen}>.
HomeRender(s) ==
    IF DialogShowsContent(s.isOpen) /\ ~s.mounted THEN Mount(s, VIDEO_URL)
    ELSE IF ~DialogShowsContent(s.isOpen) /\ s.mounted THEN Unmount(s)
    ELSE s

\* setIsOpen(v) and the render it causes; setting the current value again
\* is a bail-out.
setIsOpen(s, v) ==
    IF s.isOpen = v THEN s ELSE HomeRender([s EXCEPT !.isOpen = v])

\* Mutant: the button toggles the modal.
HomeOnClickToggle(s) == setIsOpen(s, ~s.isOpen)

\* Line 49: onClick={() => setIsOpen(true)}
HomeOnClick(s) == setIsOpen(s, TRUE)

\* Line 60: onOpenChange={setIsOpen}
HomeOnOpenChange(s, v) == setIsOpen(s, v)

\* Mutant: the page passes an empty callback.
HomeOnCloseNoop(s) == s

\* Line 69: onClose={() => setIsOpen(false)}
HomeOnClose(s) == setIsOpen(s, FALSE)

\* The onClose props a host passes: Home's () => setIsOpen(false), the empty
\* callback () => {} of the playlist example, or no prop at all as in the
\* watch page example.
OnCloseProps == {"setIsOpen", "noop", "none"}

\* The body of the callback the host passed.
HostOnClose(s) ==
    IF s.onCloseProp = "setIsOpen" THEN HomeOnClose(s) ELSE s

\* Mutant: the close action calls the prop without testing that it was given;
\* calling undefined throws a TypeError out of the click handler.
NotifyCloseUnguarded(s) ==
    IF s.onCloseProp = "none"
    THEN [s EXCEPT !.calls = Append(@, Call("throw", Null, NoRate, NoUrl, NoType))]
    ELSE HostOnClose([s EXCEPT !.calls = Append(@, Call("onClose", Null, NoRate, NoUrl, NoType))])

\* Mutant: the close action disposes the widget itself before it calls the
\* callback.
NotifyCloseDisposes(s) ==
    LET cleaned == Cleanup(s)
    IN  IF s.onCloseProp = "none"
        THEN cleaned
        ELSE HostOnClose([cleaned EXCEPT !.calls = Append(@, Call("onClose", Null, NoRate, NoUrl, NoType))])

\* The wrapper's close action: it only calls the onClose prop it was given,
\* when it was given one (the prop is optional, line 21).
NotifyClose(s) ==
    IF s.onCloseProp = "none"
    THEN s
    ELSE HostOnClose([s EXCEPT !.calls = Append(@, Call("onClose", Null, NoRate, NoUrl, NoType))])

\* Mutant: selecting a label also reloads the source on the widget.
SetQualityLabelReloads(s, label) ==
    LET chosen == [s EXCEPT !.selectedQuality = label]
    IN  IF s.playerRef # Null THEN src(chosen, s.playerRef, s.videoUrl, HlsType) ELSE chosen

\* The wrapper's quality selection: it records the label to display.
SetQualityLabel(s, label) == [s EXCEPT !.selectedQuality = label]

\* An error thrown elsewhere in the tree while rendering: React removes the
\* tree, Home with its state included; a Home mounted again starts from
\* useState(false).
TreeUnmount(s) ==
    [(IF s.mounted THEN Unmount(s) ELSE s) EXCEPT !.isOpen = HomeInitialOpen]

----------------------------------------------------------------------------
(* The wrapper under any host: changing props, failing mounts, effect re-runs *)

\* How a mount can go: the effects run through; videoRef.current is null
\* when the mount effect runs; videojs(...) throws; a statement of lines
\* 50-75 (adding the speed and quality controls) throws.
MountOutcomes == {"ok", "noContainer", "constructThrows", "controlsThrow"}

\* An exception leaves the effect; w is the widget the effect had
\* constructed by then (Null if none).
Throw(s, w) == [s EXCEPT !.calls = Append(@, Call("throw", w, NoRate, NoUrl, NoType))]

\* Lines 29-75 when a statement throws: at videojs(...) (lines 34-46) nothing
\* has been constructed; in lines 50-75 the widget is constructed and held in
\* playerRef (line 48), and neither the ready callback (line 78) nor the
\* cleanup (line 83) has been handed over.
MountEffectThrows(s, outcome) ==
    IF outcome = "constructThrows"
    THEN Throw(s, Null)
    ELSE LET w == Len(s.widgets) + 1
         IN  Throw([videojs(s) EXCEPT !.playerRef = w], w)

\* No try/catch surrounds the effect body and the tree has no error
\* boundary: React removes the tree, the host with its state included.  The
\* effect that threw returned no cleanup, so none is run for it.
ErrorUnmount(s) ==
    [s EXCEPT !.calls = Append(@, Call("removeChild", s.playerRef, NoRate, NoUrl, NoType)),
              !.mounted = FALSE,
              !.isOpen = HomeInitialOpen]

\* A new wrapper instance enters the tree, as in Mount, and its effects run
\* with the given outcome.
MountWith(s, url, outcome) ==
    LET fresh == [s EXCEPT !.mounted = TRUE, !.instance = @ + 1,
                           !.videoUrl = url, !.playerRef = Null,
                           !.isReady = FALSE, !.selectedQuality = "auto"]
    IN  IF outcome = "ok" THEN SourceEffect(MountEffect(fresh, TRUE))
        ELSE IF outcome = "noContainer" THEN SourceEffect(MountEffect(fresh, FALSE))
        ELSE ErrorUnmount(SourceEffect(MountEffectThrows(fresh, outcome)))

\* A host that shows the wrapper while its flag is set and passes `url` as
\* videoUrl (the playlist example passes currentVideo.streamUrl).
HostRender(s, url, outcome) ==
    IF DialogShowsContent(s.isOpen) /\ ~s.mounted THEN MountWith(s, url, outcome)
    ELSE IF ~DialogShowsContent(s.isOpen) /\ s.mounted THEN Unmount(s)
    ELSE IF s.mounted THEN WrapperUpdate(s, [s EXCEPT !.videoUrl = url])
    ELSE s

\* The effects of a mounted instance are run again with its state kept (the
\* development double invocation, a state-preserving refresh): every cleanup
\* runs, then every effect.  videoRef.current is what it was at mount.
EffectsRerun(s) ==
    SourceEffect(MountEffect(Cleanup(s), s.playerRef # Null))

----------------------------------------------------------------------------
(* The state machine *)

Count(op) == Cardinality({i \in DOMAIN calls : calls[i].op = op})

\* Before the first event: the host, passing `prop` as onClose, has rendered
\* once with its initial state and no wrapper instance exists.
HostInitialState(prop) ==
    HomeRender([isOpen |-> HomeInitialOpen, mounted |-> FALSE, videoUrl |-> NoUrl,
                playerRef |-> Null, isReady |-> FALSE, selectedQuality |-> "auto",
                onCloseProp |-> prop,
                instance |-> 0, widgets |-> <<>>, calls |-> <<>>])

\* Home passes onClose={() => setIsOpen(false)}.
InitialState == HostInitialState("setIsOpen")

Init ==
    /\ isOpen = InitialState.isOpen
    /\ mounted = InitialState.mounted
    /\ videoUrl = InitialState.videoUrl
    /\ playerRef = InitialState.playerRef
    /\ isReady = InitialState.isReady
    /\ selectedQuality = InitialState.selectedQuality
    /\ onCloseProp = InitialState.onCloseProp
    /\ instance = InitialState.instance
    /\ widgets = InitialState.widgets
    /\ calls = InitialState.calls
    /\ lastEvent = Event("init", Null, NoRate, NoLabel)

\* The user clicks "Start Playing Video".
Open ==
    /\ isOpen \/ Len(widgets) < MaxSessions
    /\ Becomes(HomeOnClick(Cur))
    /\ lastEvent' = Event("open", playerRef, NoRate, NoLabel)

\* The dialog asks to be closed (its X button, Escape, a click outside).
DialogDismiss ==
    /\ Becomes(HomeOnOpenChange(Cur, FALSE))
    /\ lastEvent' = Event("dismiss", playerRef, NoRate, NoLabel)

\* The user activates the wrapper's close action.
CloseClick ==
    /\ mounted
    /\ Becomes(NotifyClose(Cur))
    /\ lastEvent' = Event("closeClick", playerRef, NoRate, NoLabel)

\* The widget w reports ready: it runs the callback queued by player.ready,
\* and React re-renders the wrapper whose state changed.
PlayerReady(w) ==
    /\ widgets[w].status = "live"
    /\ widgets[w].readyCb > 0
    /\ LET fired == [Cur EXCEPT !.widgets[w].ready = TRUE,
                                !.widgets[w].readyCb = 0]
       IN  Becomes(WrapperUpdate(Cur, RunReadyQueue(fired, w, widgets[w].readyCb)))
    /\ lastEvent' = Event("ready", w, NoRate, NoLabel)

\* The user activates the menu item for `rate` of widget w.
RateClick(w, rate) ==
    /\ widgets[w].status = "live"
    /\ rate \in widgets[w].menuItems
    /\ Count("playbackRate") < MaxRateCalls
    /\ Becomes(ClickHandler(Cur, w, rate))
    /\ lastEvent' = Event("rateClick", w, rate, NoLabel)

\* The user selects a quality label; the selector is rendered once the
\* wrapper is ready.
QualitySelect(label) ==
    /\ mounted
    /\ isReady
    /\ Becomes(SetQualityLabel(Cur, label))
    /\ lastEvent' = Event("quality", playerRef, NoRate, label)

\* A component elsewhere in the tree throws while rendering.
TreeError ==
    /\ Becomes(TreeUnmount(Cur))
    /\ lastEvent' = Event("treeError", playerRef, NoRate, NoLabel)

Next ==
    \/ Open
    \/ DialogDismiss
    \/ CloseClick
    \/ \E w \in DOMAIN widgets : PlayerReady(w)
    \/ \E w \in DOMAIN widgets : \E rate \in Range(playbackRates) : RateClick(w, rate)
    \/ \E label \in Range(resolutions) : QualitySelect(label)
    \/ TreeError

Spec == Init /\ [][Next]_vars

\* A modal host like Home that passes any of the onClose props.
InitHosts ==
    \E prop \in OnCloseProps :
        /\ isOpen = HostInitialState(prop).isOpen
        /\ mounted = HostInitialState(prop).mounted
        /\ videoUrl = HostInitialState(prop).videoUrl
        /\ playerRef = HostInitialState(prop).playerRef
        /\ isReady = HostInitialState(prop).isReady
        /\ selectedQuality = HostInitialState(prop).selectedQuality
        /\ onCloseProp = prop
        /\ instance = HostInitialState(prop).instance
        /\ widgets = HostInitialState(prop).widgets
        /\ calls = HostInitialState(prop).calls
        /\ lastEvent = Event("init", Null, NoRate, NoLabel)

\* The user opens the modal.
HostOpen ==
    /\ isOpen \/ Len(widgets) < MaxHostSessions
    /\ Becomes(HomeOnClick(Cur))
    /\ lastEvent' = Event("open", playerRef, NoRate, NoLabel)

\* The user activates the menu item for `rate` of widget w.
HostRateClick(w, rate) ==
    /\ widgets[w].status = "live"
    /\ rate \in widgets[w].menuItems
    /\ Count("playbackRate") < MaxHostRateCalls
    /\ Becomes(ClickHandler(Cur, w, rate))
    /\ lastEvent' = Event("rateClick", w, rate, NoLabel)

\* The widget w emits an error event (network failure, unsupported format,
\* manifest fetch failure); it can do so as long as it is not disposed.
PlayerError(w) ==
    /\ widgets[w].status = "live"
    /\ LET failed == [Cur EXCEPT !.widgets[w].error = TRUE]
       IN  Becomes(WrapperUpdate(Cur, WrapperOnError(failed, w)))
    /\ lastEvent' = Event("error", w, NoRate, NoLabel)

\* The user activates the wrapper's close action.
HostCloseClick ==
    /\ mounted
    /\ Count("onClose") < MaxHostCloseCalls
    /\ Becomes(NotifyClose(Cur))
    /\ lastEvent' = Event("closeClick", playerRef, NoRate, NoLabel)

NextHosts ==
    \/ HostOpen
    \/ DialogDismiss
    \/ HostCloseClick
    \/ \E w \in DOMAIN widgets : PlayerReady(w)
    \/ \E w \in DOMAIN widgets : \E rate \in Range(playbackRates) : HostRateClick(w, rate)
    \/ \E w \in DOMAIN widgets : PlayerError(w)
    \/ TreeError

SpecHosts == InitHosts /\ [][NextHosts]_vars

\* The host shows the wrapper with one of the playlist's URLs.
WrapperOpen(url, outcome) ==
    /\ ~isOpen
    /\ instance < MaxWrapperMounts
    /\ Becomes(HostRender([Cur EXCEPT !.isOpen = TRUE], url, outcome))
    /\ lastEvent' = Event("open", playerRef, NoRate, outcome)

\* The host takes the wrapper out of the tree.
WrapperClose ==
    /\ isOpen
    /\ Becomes(HostRender([Cur EXCEPT !.isOpen = FALSE], videoUrl, "ok"))
    /\ lastEvent' = Event("dismiss", playerRef, NoRate, NoLabel)

\* The host renders again and passes another URL (playNext, playPrevious).
UrlChange(url) ==
    /\ mounted
    /\ url # videoUrl
    /\ Count("src") < MaxWrapperSrcCalls
    /\ Becomes(HostRender(Cur, url, "ok"))
    /\ lastEvent' = Event("urlChange", playerRef, NoRate, NoLabel)

\* The host renders again with the same props.
Rerender ==
    /\ mounted
    /\ Becomes(HostRender(Cur, videoUrl, "ok"))
    /\ lastEvent' = Event("rerender", playerRef, NoRate, NoLabel)

NextWrapper ==
    \/ \E url \in Range(PlaylistUrls) : \E outcome \in MountOutcomes : WrapperOpen(url, outcome)
    \/ WrapperClose
    \/ \E url \in Range(PlaylistUrls) : UrlChange(url)
    \/ Rerender
    \/ \E w \in DOMAIN widgets : PlayerReady(w)

SpecWrapper == Init /\ [][NextWrapper]_vars

\* React runs the effects of the mounted wrapper again.
Rerun ==
    /\ mounted
    /\ Len(widgets) < MaxWrapperMounts + MaxEffectReruns
    /\ Becomes(EffectsRerun(Cur))
    /\ lastEvent' = Event("rerun", playerRef, NoRate, NoLabel)

NextReruns ==
    \/ \E url \in Range(PlaylistUrls) : \E outcome \in MountOutcomes : WrapperOpen(url, outcome)
    \/ WrapperClose
    \/ \E url \in Range(PlaylistUrls) : UrlChange(url)
    \/ \E w \in DOMAIN widgets : PlayerReady(w)
    \/ Rerun

SpecReruns == Init /\ [][NextReruns]_vars

----------------------------------------------------------------------------
(* Properties *)

IsLifecycle(c) == c.op \in {"videojs", "dispose"}

Lifecycle == SelectSeq(calls, IsLifecycle)

Live == {w \in DOMAIN widgets : widgets[w].status = "live"}

Disposed == {w \in DOMAIN widgets : widgets[w].status = "disposed"}

CallsTo(op, w) == {i \in DOMAIN calls : calls[i].op = op /\ calls[i].w = w}

LastCall == calls[Len(calls)]

\* In the log, constructions and disposals alternate, a construction first,
\* and each disposal is of the widget constructed just before it.
LifecycleAlternates ==
    \A i \in DOMAIN Lifecycle :
        /\ Lifecycle[i].op = (IF i % 2 = 1 THEN "videojs" ELSE "dispose")
        /\ i % 2 = 0 => Lifecycle[i].w = Lifecycle[i - 1].w

\* A mount issues one construction and no disposal, an unmount one disposal
\* and no construction, any other step neither.
MountStepCalls ==
    /\ (~mounted /\ mounted') =>
           /\ Count("videojs")' = Count("videojs") + 1
           /\ Count("dispose")' = Count("dispose")
    /\ (mounted /\ ~mounted') =>
           /\ Count("videojs")' = Count("videojs")
           /\ Count("dispose")' = Count("dispose") + 1
    /\ (mounted' = mounted) =>
           /\ Count("videojs")' = Count("videojs")
           /\ Count("dispose")' = Count("dispose")

\* C1: over any sequence of mounts and unmounts, constructions and disposals
\* strictly alternate starting with a construction; each mount issues
\* exactly one construction and each unmount exactly one disposal.
C1_ConstructDisposeAlternate == []LifecycleAlternates /\ [][MountStepCalls]_vars

\* C1 witness: mount, unmount, mount, unmount: two constructions, two disposals.
C1_Witness ==
    /\ ~mounted
    /\ Count("videojs") = 2
    /\ Count("dispose") = 2

\* C2: a constructed, not yet disposed widget exists if and only if the
\* modal is open.
C2_SessionIffOpen == (Live # {}) <=> isOpen

\* C2 witness: the modal was closed and opened again; the first widget is
\* gone and the second one is the session.
C2_Witness ==
    /\ isOpen
    /\ Len(widgets) = 2
    /\ widgets[1].status = "disposed"
    /\ Live = {2}
    /\ playerRef = 2

\* C3: at most one widget is constructed and not disposed.
C3_AtMostOneLive == Cardinality(Live) <= 1

\* C3 witness: a second session that has reported ready and taken a rate
\* click is the only live widget.
C3_Witness ==
    /\ lastEvent.kind = "rateClick"
    /\ Len(widgets) = 2
    /\ widgets[2].ready
    /\ Live = {2}

\* Whatever makes the wrapper leave the tree, the step disposes the widget
\* the wrapper holds, with one dispose call.
UnmountDisposesOnce ==
    (mounted /\ ~mounted') =>
        /\ playerRef \in Live
        /\ playerRef \in Disposed'
        /\ Count("dispose")' = Count("dispose") + 1
        /\ calls'[Len(calls')] = Call("dispose", playerRef, NoRate, NoUrl, NoType)
        /\ Cardinality({i \in DOMAIN calls' : calls'[i].op = "dispose"
                                               /\ calls'[i].w = playerRef}) = 1

NoCallAfterDispose ==
    \A i, j \in DOMAIN calls :
        (i < j /\ calls[i].op = "dispose") => calls[j].w # calls[i].w

\* A disposed widget no longer changes and no ready event is delivered for it.
DisposedIsQuiet ==
    \A w \in Disposed :
        /\ widgets'[w] = widgets[w]
        /\ lastEvent'.kind = "ready" => lastEvent'.w # w

\* C5: once the modal is closed and the widget disposed, its readiness
\* callback does not run and no src or playbackRate call is issued to it.
C5_NothingAfterDispose == []NoCallAfterDispose /\ [][DisposedIsQuiet]_vars

\* C5 witness: the first widget was ready, had its source and a rate set and
\* was disposed; calls go on, to the second widget.
C5_Witness ==
    /\ Len(widgets) = 2
    /\ 1 \in Disposed
    /\ widgets[1].ready
    /\ CallsTo("playbackRate", 1) # {}
    /\ CallsTo("src", 2) # {}
    /\ CallsTo("playbackRate", 2) # {}

\* A click on the control for a rate appends one playbackRate call, to the
\* session's widget and with that rate, and the widget then plays at it.
RateClickCallsOnce ==
    lastEvent'.kind = "rateClick" =>
        /\ lastEvent'.rate \in Range(playbackRates)
        /\ playerRef \in Live
        /\ calls' = Append(calls, Call("playbackRate", playerRef, lastEvent'.rate, NoUrl, NoType))
        /\ widgets'[playerRef].rate = lastEvent'.rate

\* Rate-setting calls come from rate clicks only.
OnlyClicksSetRate ==
    lastEvent'.kind # "rateClick" => Count("playbackRate")' = Count("playbackRate")

CloseClickCloses ==
    lastEvent'.kind = "closeClick" =>
        /\ isOpen
        /\ playerRef \in Live
        /\ calls' = calls \o <<Call("onClose", Null, NoRate, NoUrl, NoType),
                               Call("removeChild", playerRef, NoRate, NoUrl, NoType),
                               Call("dispose", playerRef, NoRate, NoUrl, NoType)>>
        /\ ~isOpen'
        /\ ~mounted'
        /\ playerRef \in Disposed'

ClosedAtStart ==
    /\ ~isOpen
    /\ ~mounted
    /\ widgets = <<>>
    /\ calls = <<>>

\* A step that opens the modal constructs a widget that did not exist
\* before, for a wrapper given the fixed URL; every earlier widget is gone.
OpenIsFresh ==
    (~isOpen /\ isOpen') =>
        /\ Len(widgets') = Len(widgets) + 1
        /\ playerRef' = Len(widgets')
        /\ playerRef' \notin DOMAIN widgets
        /\ widgets'[playerRef'].status = "live"
        /\ ~widgets'[playerRef'].ready
        /\ ~isReady'
        /\ videoUrl' = VIDEO_URL
        /\ \A w \in DOMAIN widgets : widgets'[w] = widgets[w] /\ w \in Disposed

\* C9: the modal is closed initially, and every Open that follows a Close
\* yields a new session, distinct from all earlier ones, bound to the same
\* fixed source URL.
C9_FreshSessionOnOpen == ClosedAtStart /\ [][OpenIsFresh]_vars

\* C9 witness: the modal was reopened after a close of a ready session.
C9_Witness ==
    /\ lastEvent.kind = "open"
    /\ isOpen
    /\ playerRef = 2
    /\ widgets[1].ready
    /\ 1 \in Disposed
    /\ videoUrl = VIDEO_URL

\* A quality selection sets the displayed label and nothing else.
QualityOnlyLabel ==
    lastEvent'.kind = "quality" =>
        /\ lastEvent'.label \in Range(resolutions)
        /\ selectedQuality' = lastEvent'.label
        /\ UNCHANGED <<isOpen, mounted, videoUrl, playerRef, isReady, instance,
                       widgets, calls>>

SrcOnlyAfterReady ==
    \A i \in DOMAIN calls :
        calls[i].op = "src" =>
            \E j \in 1..(i - 1) :
                calls[j].op = "readyCallback" /\ calls[j].w = calls[i].w

\* The URLs the src calls to widget w carried.
SrcUrls(w) == {calls[i].url : i \in CallsTo("src", w)}

CloseWithoutCallback ==
    (lastEvent'.kind = "closeClick" /\ onCloseProp = "none") =>
        UNCHANGED <<isOpen, mounted, videoUrl, playerRef, isReady,
                    selectedQuality, onCloseProp, instance, widgets, calls>>

\* C12: onClose is optional: a user-initiated close of a wrapper mounted
\* without an onClose callback raises no error and leaves the session
\* (widget, ready flag, rate, source) unchanged.
C12_CloseWithoutCallbackIsSafe == [][CloseWithoutCallback]_vars

\* C12 witness: the close action was used on a ready session playing at 1.5x
\* whose wrapper has no onClose; the session is still there.
C12_Witness ==
    /\ lastEvent.kind = "closeClick"
    /\ onCloseProp = "none"
    /\ isOpen
    /\ isReady
    /\ playerRef \in Live
    /\ widgets[playerRef].rate = 15
    /\ widgets[playerRef].url = VIDEO_URL
    /\ Count("throw") = 0

\* The removals of a container that holds a widget.
Removals == {i \in DOMAIN calls : calls[i].op = "removeChild" /\ calls[i].w # Null}

\* Between tasks: whenever the wrapper (and with it the container) is out of
\* the tree, no widget is left undisposed.
NoWidgetWithoutContainer == ~mounted => Live = {}

RateControls(w) == IF w \in Live THEN widgets[w].menuItems ELSE {}

SessionPhase(w) ==
    IF widgets[w].status = "disposed" THEN 2
    ELSE IF playerRef = w /\ isReady THEN 1
    ELSE 0

\* No step moves a session backwards, a disposed widget stays as it was when
\* it was disposed, and a session starts uninitialized.
LifecycleForward ==
    /\ \A w \in DOMAIN widgets :
        /\ SessionPhase(w)' >= SessionPhase(w)
        /\ SessionPhase(w) = 2 => widgets'[w] = widgets[w]
    /\ \A w \in (DOMAIN widgets') \ (DOMAIN widgets) : SessionPhase(w)' = 0

\* C16: a session's lifecycle state only moves forward through
\* uninitialized, ready, disposed: never from ready back to uninitialized, and
\* a disposed session never becomes ready or uninitialized again.
C16_LifecycleMonotone == [][LifecycleForward]_vars

\* C16 witness: the first session went through all three states and is
\* disposed, and the second one has become ready.
C16_Witness ==
    /\ Len(widgets) = 2
    /\ SessionPhase(1) = 2
    /\ widgets[1].ready
    /\ CallsTo("src", 1) # {}
    /\ SessionPhase(2) = 1
    /\ lastEvent.kind = "ready"

\* How many times the ready callback registered on widget w has run.
ReadyRuns(w) == Cardinality(CallsTo("readyCallback", w))

\* C17: the widget's readiness callback runs at most once per session, so
\* the ready flag is set at most once between a mount and the following
\* unmount: each wrapper instance has its own widget, the callback registered
\* on it has run once if the widget reported ready and never otherwise, and
\* none is left queued after it ran.
C17_ReadyAtMostOnce ==
    \A w \in DOMAIN widgets :
        /\ widgets[w].owner = w
        /\ ReadyRuns(w) = (IF widgets[w].ready THEN 1 ELSE 0)
        /\ widgets[w].readyCb = (IF w \in Live /\ ~widgets[w].ready THEN 1 ELSE 0)
        /\ (playerRef = w /\ isReady) => ReadyRuns(w) = 1

\* C17 witness: the session became ready, the user went on using it, and the
\* callback has still run just once.
C17_Witness ==
    /\ lastEvent.kind = "quality"
    /\ isReady
    /\ ReadyRuns(playerRef) = 1
    /\ widgets[playerRef].readyCb = 0
    /\ Count("playbackRate") > 0

\* The steps in which the host's setter setIsOpen is called: the open
\* button, the dialog's onOpenChange, and Home's onClose callback.
SetterCalled ==
    \/ lastEvent'.kind \in {"open", "dismiss"}
    \/ lastEvent'.kind = "closeClick" /\ onCloseProp = "setIsOpen"

\* The step in which the host itself is removed from the tree, and its state
\* with it.
HostRemoved == lastEvent'.kind = "treeError"

\* What a close click does, what changes the modal state, and what disposes.
CloseOnlyRequests ==
    /\ (lastEvent'.kind = "closeClick" /\ onCloseProp = "noop") =>
        /\ calls' = Append(calls, Call("onClose", Null, NoRate, NoUrl, NoType))
        /\ UNCHANGED <<isOpen, mounted, videoUrl, playerRef, isReady,
                       selectedQuality, onCloseProp, instance, widgets>>
    /\ (lastEvent'.kind = "closeClick" /\ onCloseProp = "setIsOpen") =>
        /\ Count("onClose")' = Count("onClose") + 1
        /\ ~isOpen'
    /\ isOpen' # isOpen => (SetterCalled \/ HostRemoved)
    /\ Count("dispose")' # Count("dispose") =>
        /\ mounted /\ ~mounted'
        /\ isOpen /\ ~isOpen'
        /\ calls'[Len(calls')] = Call("dispose", playerRef, NoRate, NoUrl, NoType)
        /\ calls'[Len(calls') - 1] = Call("removeChild", playerRef, NoRate, NoUrl, NoType)

\* C18: NotifyClose only requests closure: the close action calls the
\* supplied callback and does not itself change the modal state or dispose
\* the widget; the modal state of a host changes only through the host's
\* setter (it is gone when the host itself is removed) and the widget is
\* disposed only through the wrapper's unmount.
C18_CloseOnlyRequests == [][CloseOnlyRequests]_vars

\* C18 witness: the close action was used under a host whose callback does
\* nothing: the callback was called, the modal is open and the widget live.
C18_Witness ==
    /\ lastEvent.kind = "closeClick"
    /\ onCloseProp = "noop"
    /\ LastCall = Call("onClose", Null, NoRate, NoUrl, NoType)
    /\ isOpen
    /\ mounted
    /\ playerRef \in Live
    /\ widgets[playerRef].ready

\* An error event of widget w marks that widget as failed and changes
\* nothing else: no call is issued and no wrapper or host state changes.
ErrorStaysLocal ==
    lastEvent'.kind = "error" =>
        /\ widgets' = [widgets EXCEPT ![lastEvent'.w].error = TRUE]
        /\ UNCHANGED <<isOpen, mounted, videoUrl, playerRef, isReady,
                       selectedQuality, onCloseProp, instance, calls>>

\* C19: a playback error event emitted by the widget stays local to the
\* wrapper: the modal stays open, the session undisposed, the ready flag,
\* rate and source unchanged, and there is no retry, no fallback src call, no
\* construction and no close notification.
C19_ErrorStaysLocal == [][ErrorStaysLocal]_vars

\* C19 witness: a ready session playing the source at 2x has emitted an
\* error; it is still open, live, at 2x on the same source, with the one src
\* call and the one construction it had.
C19_Witness ==
    /\ lastEvent.kind = "error"
    /\ isOpen
    /\ isReady
    /\ playerRef = lastEvent.w
    /\ playerRef \in Live
    /\ widgets[playerRef].error
    /\ widgets[playerRef].rate = 20
    /\ widgets[playerRef].url = VIDEO_URL
    /\ Count("src") = 1
    /\ Count("videojs") = 1
    /\ Count("onClose") = 0

\* The rate the wrapper last asked widget w to play at: that of the last
\* playbackRate call to w, and the widget's initial rate if there is none.
CommandedRate(w) ==
    LET rateCalls == CallsTo("playbackRate", w)
    IN  IF rateCalls = {}
        THEN NewWidget.rate
        ELSE calls[CHOOSE i \in rateCalls : \A j \in rateCalls : j <= i].rate

IsRateCall(c) == c.op = "playbackRate"

\* The rate of a widget is the one last selected for it; it changes, and a
\* rate-setting call is issued, only in a rate click on that widget.
RateKeptBetweenClicks ==
    /\ \A w \in DOMAIN widgets :
        (lastEvent'.kind # "rateClick" \/ lastEvent'.w # w) =>
            widgets'[w].rate = widgets[w].rate
    /\ lastEvent'.kind # "rateClick" =>
        SelectSeq(calls', IsRateCall) = SelectSeq(calls, IsRateCall)
    /\ lastEvent'.kind = "rateClick" =>
        /\ calls' = Append(calls, Call("playbackRate", lastEvent'.w, lastEvent'.rate, NoUrl, NoType))
        /\ widgets'[lastEvent'.w].rate = lastEvent'.rate

UrlChangeKeepsSession ==
    /\ Count("videojs") <= instance
    /\ lastEvent'.kind = "urlChange" =>
        /\ videoUrl' # videoUrl
        /\ UNCHANGED <<isOpen, mounted, playerRef, isReady, instance>>
        /\ DOMAIN widgets' = DOMAIN widgets
        /\ calls' = (IF playerRef # Null /\ isReady
                     THEN Append(calls, Call("src", playerRef, NoRate, videoUrl', HlsType))
                     ELSE calls)
    /\ lastEvent'.kind = "rerender" =>
        UNCHANGED <<isOpen, mounted, videoUrl, playerRef, isReady, instance,
                    widgets, calls>>

\* C21: a change of videoUrl while the wrapper is mounted never creates a
\* new session: it causes no widget construction and no disposal, and (when
\* ready) exactly one src call with the new URL on the existing widget; the
\* widget is constructed at most once per mount whatever the prop changes
\* and re-renders.
C21_UrlChangeKeepsSession == [][UrlChangeKeepsSession]_vars

\* C21 witness: the ready wrapper was given the second URL; its one widget
\* got a second src call, with that URL, and nothing was constructed or
\* disposed.
C21_Witness ==
    /\ lastEvent.kind = "urlChange"
    /\ isReady
    /\ Len(widgets) = 1
    /\ playerRef = 1
    /\ videoUrl = PlaylistUrls[2]
    /\ LastCall = Call("src", 1, NoRate, PlaylistUrls[2], HlsType)
    /\ Count("src") = 2
    /\ Count("videojs") = 1
    /\ Count("dispose") = 0

ReadySetsSourceOnce ==
    /\ (lastEvent'.kind = "ready" /\ mounted /\ playerRef = lastEvent'.w) =>
        /\ calls' = calls \o <<Call("readyCallback", playerRef, NoRate, NoUrl, NoType),
                               Call("src", playerRef, NoRate, videoUrl, HlsType)>>
        /\ isReady'
        /\ UNCHANGED <<videoUrl, playerRef>>
    /\ lastEvent'.kind = "rerender" => calls' = calls
    /\ \A i \in DOMAIN calls' : calls'[i].op = "src" => calls'[i].type = HlsType

C24_NoWidgetOutlivesWrapper ==
    \A w \in DOMAIN widgets :
        widgets[w].status = "live" => (mounted /\ playerRef = w)

\* C25: whenever the wrapper's ready flag is true, the widget it holds has
\* itself reported ready, also after the mount effect was cleaned up and run
\* again in the same instance, so no src call reaches a widget that has not
\* reported ready.
C25_ReadyFlagIsOfHeldWidget ==
    /\ (mounted /\ isReady /\ playerRef # Null) => widgets[playerRef].ready
    /\ \A i \in DOMAIN calls :
        calls[i].op = "src" =>
            \E j \in 1..(i - 1) :
                calls[j] = Call("readyCallback", calls[i].w, NoRate, NoUrl, NoType)

\* There are never more disposals than constructions, no widget is disposed
\* twice, and the unmount of a wrapper that holds no widget only removes its
\* elements: no dispose call and no src call.
DisposalsWithinConstructions ==
    /\ Count("dispose") <= Count("videojs")
    /\ \A w \in DOMAIN widgets : Cardinality(CallsTo("dispose", w)) <= 1
    /\ (lastEvent'.kind = "dismiss" /\ mounted /\ playerRef = Null) =>
        /\ ~mounted'
        /\ calls' = Append(calls, Call("removeChild", Null, NoRate, NoUrl, NoType))

\* C26: in every reachable state the number of disposal calls is at most the
\* number of construction calls, and unmounting a wrapper that never
\* constructed a widget (container missing at mount) issues no disposal call
\* and no src call.
C26_DisposalsWithinConstructions == [][DisposalsWithinConstructions]_vars

\* C26 witness: a wrapper mounted without a container, and so without a
\* widget, has been unmounted after an earlier session was closed: one
\* construction, one disposal, and nothing but the removal in the last step.
C26_Witness ==
    /\ lastEvent.kind = "dismiss"
    /\ lastEvent.w = Null
    /\ ~mounted
    /\ instance = 2
    /\ Count("videojs") = 1
    /\ Count("dispose") = 1
    /\ LastCall = Call("removeChild", Null, NoRate, NoUrl, NoType)

\* The call a rate control issues when activated goes to the widget
\* constructed last, which is the widget of the session the control belongs
\* to and the one the wrapper holds; that widget has not been disposed, and
\* the widgets of other sessions are left as they are.
RateCallsToOwnLiveWidget ==
    lastEvent'.kind = "rateClick" =>
        LET c == calls'[Len(calls')]
        IN  /\ Len(calls') = Len(calls) + 1
            /\ c.op = "playbackRate"
            /\ c.w = Len(widgets)
            /\ c.w = playerRef
            /\ c.w = lastEvent'.w
            /\ widgets[c.w].status = "live"
            /\ CallsTo("dispose", c.w) = {}
            /\ \A v \in DOMAIN widgets : v # c.w => widgets'[v] = widgets[v]

\* C27: the speed control is bound to its own session's widget: no
\* rate-setting call is ever delivered to the widget of another session or
\* to a widget that has already been disposed.
C27_RateCallsToOwnLiveWidget == [][RateCallsToOwnLiveWidget]_vars

\* C27 witness: each of two sessions had its rate set; the first session's
\* widget was disposed before the second session's control was activated.
C27_Witness ==
    /\ lastEvent.kind = "rateClick"
    /\ lastEvent.w = 2
    /\ playerRef = 2
    /\ 1 \in Disposed
    /\ Cardinality(CallsTo("playbackRate", 1)) = 1
    /\ Cardinality(CallsTo("playbackRate", 2)) = 1
    /\ \A i \in CallsTo("playbackRate", 1) : \A j \in CallsTo("dispose", 1) : i < j

\* What a session consists of in state s: the wrapper's hooks and props and
\* the widget it holds, without the identities (instance and widget number)
\* that tell sessions apart.
SessionView(s) ==
    [isOpen |-> s.isOpen, mounted |-> s.mounted, videoUrl |-> s.videoUrl,
     isReady |-> s.isReady, selectedQuality |-> s.selectedQuality,
     widget |-> IF s.playerRef \in DOMAIN s.widgets
                THEN [s.widgets[s.playerRef] EXCEPT !.owner = Null]
                ELSE [NewWidget EXCEPT !.status = "none"]]

\* The first session, as the first Open of a new page starts it.
FirstSession == HomeOnClick(InitialState)

\* A session just opened from the closed modal is the first session over
\* again, whatever earlier sessions did: rate 1x, label "auto", ready flag
\* false, no source, and its first call is its own construction.
SessionStartsAsFirst ==
    (lastEvent.kind = "open" /\ lastEvent.w = Null) =>
        /\ SessionView(Cur) = SessionView(FirstSession)
        /\ widgets[playerRef].rate = NewWidget.rate
        /\ selectedQuality = "auto"
        /\ ~isReady
        /\ LastCall = Call("videojs", playerRef, NoRate, NoUrl, NoType)

\* C28: no state carries over between sessions: after a Close the next Open
\* starts with the default rate, the default selection and the ready flag
\* false, exactly as a first session does.
C28_SessionStartsAsFirst == SessionStartsAsFirst

\* C28 witness: a second session has just been opened after a first one
\* that became ready and had its rate changed.
C28_Witness ==
    /\ lastEvent.kind = "open"
    /\ lastEvent.w = Null
    /\ playerRef = 2
    /\ widgets[1].ready
    /\ widgets[1].rate # NewWidget.rate
    /\ 1 \in Disposed
    /\ widgets[2].rate = NewWidget.rate

\* Open on an open modal and a close request on a closed one leave the
\* sessions and the call log as they are.  The same holds for the handler
\* that would run next in the same user action: after any Open a second
\* Open changes nothing, and after any Close (the wrapper's onClose or the
\* dialog's onOpenChange) the other close handler changes nothing, so one
\* user action disposes at most once.
OpenCloseIdempotent ==
    /\ (lastEvent'.kind = "open" /\ isOpen) =>
        UNCHANGED <<isOpen, mounted, videoUrl, playerRef, isReady, selectedQuality,
                    instance, widgets, calls>>
    /\ (lastEvent'.kind = "dismiss" /\ ~isOpen) =>
        UNCHANGED <<isOpen, mounted, videoUrl, playerRef, isReady, selectedQuality,
                    instance, widgets, calls>>
    /\ lastEvent'.kind = "open" =>
        /\ HomeOnClick(Cur)' = Cur'
        /\ Len(widgets') <= Len(widgets) + 1
    /\ lastEvent'.kind \in {"dismiss", "closeClick"} =>
        /\ HomeOnOpenChange(Cur, FALSE)' = Cur'
        /\ HomeOnClose(Cur)' = Cur'
        /\ Count("dispose")' <= Count("dispose") + 1

\* C29: Open and Close are idempotent on the modal host: Open while already
\* open creates no second session and issues no construction call, and Close
\* while already closed (both onClose and the dialog's onOpenChange firing
\* for one user action) issues no second disposal call.
C29_OpenCloseIdempotent == [][OpenCloseIdempotent]_vars

\* C29 witness: the session was closed through onClose, the dialog's close
\* request followed on the closed modal, and there is one disposal.
C29_Witness ==
    /\ lastEvent.kind = "dismiss"
    /\ lastEvent.w = Null
    /\ ~isOpen
    /\ Len(calls) >= 3
    /\ calls[Len(calls) - 2].op = "onClose"
    /\ LastCall.op = "dispose"
    /\ Count("dispose") = 1
    /\ Count("videojs") = 1

\* Running the cleanup from any reachable state leaves the reference null
\* and issues at most one dispose call, for the widget held; running it once
\* more changes nothing.
CleanupIdempotent ==
    LET s == Cur
        once == Cleanup(s)
        twice == Cleanup(once)
    IN  /\ once.playerRef = Null
        /\ twice = once
        /\ once.calls = (IF playerRef = Null
                         THEN calls
                         ELSE Append(calls, Call("dispose", playerRef, NoRate, NoUrl, NoType)))
        /\ (lastEvent.kind \in {"dismiss", "rerun"} /\ lastEvent.w # Null) =>
            /\ Cardinality(CallsTo("dispose", lastEvent.w)) = 1
            /\ playerRef # lastEvent.w

\* C30: teardown is idempotent and clears ownership: after the cleanup has
\* run the wrapper's widget reference is null, and running the cleanup again
\* issues no second dispose call.
C30_CleanupIdempotent == CleanupIdempotent

\* C30 witness: the cleanup ran twice in one wrapper instance, at an effect
\* re-run and at the unmount; the reference is null and each of the two
\* widgets was disposed once.
C30_Witness ==
    /\ lastEvent.kind = "dismiss"
    /\ ~mounted
    /\ playerRef = Null
    /\ instance = 1
    /\ Len(widgets) = 2
    /\ Disposed = {1, 2}
    /\ Count("dispose") = 2
    /\ Cleanup(Cur) = Cur

====
